---- MODULE Spec2Model ----
(***************************************************************************)
(* E-consultation sentiment analysis: SentimentAnalyzer                    *)
(* (sentiment_analyzer.py) and the Streamlit session that drives it        *)
(* (streamlit_app.py).                                                     *)
(*                                                                         *)
(* Numbers.  Polarity and subjectivity are real numbers in the program.    *)
(* Here every such quantity is an integer number of ten-thousandths, so    *)
(* 0.1 is 1000, 0.1004 is 1004 and a value rounded to 3 decimals is a      *)
(* multiple of 10.  Percentages are integers in tenths of a percent, so    *)
(* 33.3 is 333.  Sums and means are exact: the binary floating point error *)
(* of the program (about 1e-16) is not represented.                        *)
(***************************************************************************)
EXTENDS Integers, Sequences, FiniteSets, TLC

VARIABLES
    text,                 \* argument of a single analyze_sentiment call
    analysis,             \* what that call returned
    df,                   \* the DataFrame handed to analyze()
    pc,                   \* position inside analyze()
    detailed,             \* analyze.detailed_results
    overall_stats,        \* analyze.overall_stats
    provision_sentiment,  \* analyze.provision_sentiment
    returned,             \* the dictionary analyze() returned
    error,                \* the exception analyze() raised, "none" if none
    uploaded_data,        \* st.session_state['uploaded_data'], None if absent
    analysis_results,     \* st.session_state['analysis_results'], None if absent
    uploaded_file,        \* the value of the st.file_uploader widget
    rerun,                \* st.rerun() was called and the rerun has not run yet
    shown,                \* what the last script run left on the page
    analysed,             \* the argument of the last perform_analysis(df) call
    group_summary,        \* what create_stakeholder_summary(df, detailed) returned
    call,                 \* a call of a text function: its name and arguments
    result                \* what that call returned

coreVars == <<text, analysis, df, pc, detailed, overall_stats,
              provision_sentiment, returned, error, group_summary>>

textVars == <<call, result>>

appVars == <<uploaded_data, analysis_results, uploaded_file, rerun, shown,
             analysed>>

vars == <<coreVars, appVars, textVars>>

----------------------------------------------------------------------------
(* Bounds and program constants *)

\* longest batch handed to analyze()
MaxBatch == 4

\* polarity is a score in -1 .. 1 (ten-thousandths)
MaxPolarity == 10000

\* "if polarity > 0.1" and "elif polarity < -0.1" (ten-thousandths)
POSITIVE_THRESHOLD == 1000
NEGATIVE_THRESHOLD == -1000

----------------------------------------------------------------------------
(* Values *)

None == [tag |-> "None"]

Return(v) == [err |-> "none", val |-> v]
Raise(e)  == [err |-> e, val |-> None]

\* A cell of the comment_text column.  A string is represented by what the
\* lexicon makes of it: TextBlob(text).sentiment.  A cell that is not a
\* string is a number (a numeric cell) or NaN (pandas' null).
Str(p, s) == [kind |-> "str", polarity |-> p, subjectivity |-> s]
Number    == [kind |-> "number", polarity |-> 0, subjectivity |-> 0]
NaN       == [kind |-> "nan", polarity |-> 0, subjectivity |-> 0]

Abs(x) == IF x < 0 THEN -x ELSE x

RECURSIVE SumSeq(_)
SumSeq(s) == IF s = <<>> THEN 0 ELSE Head(s) + SumSeq(Tail(s))

RECURSIVE CountOf(_, _)
CountOf(s, x) ==
    IF s = <<>> THEN 0
    ELSE (IF Head(s) = x THEN 1 ELSE 0) + CountOf(Tail(s), x)

Range(s) == {s[i] : i \in DOMAIN s}

Column(rows, c) == [i \in DOMAIN rows |-> rows[i][c]]

\* The integer nearest to num/den (den > 0), an exact tie going to the even
\* neighbour: Python's round() on a value that is exactly representable.
RoundHalfEven(num, den) ==
    LET q == num \div den
        r == num - q * den
    IN  IF 2 * r < den THEN q
        ELSE IF 2 * r > den THEN q + 1
        ELSE IF q % 2 = 0 THEN q ELSE q + 1

\* A mutant of Round3: the value is kept as it is (no rounding per record).
Round3_unrounded(p) == p

\* round(x, 3) of x given in ten-thousandths
Round3(p) == 10 * RoundHalfEven(p, 10)

\* round(num/den, 3) of a quotient of ten-thousandths
Round3Of(num, den) == 10 * RoundHalfEven(num, 10 * den)

----------------------------------------------------------------------------
(* SentimentAnalyzer.analyze_sentiment *)

\* A mutant of Classify: the thresholds are inclusive.
Classify_inclusive(polarity) ==
    IF polarity >= POSITIVE_THRESHOLD THEN "Positive"
    ELSE IF polarity =< NEGATIVE_THRESHOLD THEN "Negative"
    ELSE "Neutral"

\* A mutant of Classify: the thresholds are 0.05 and -0.05.
Classify_half_threshold(polarity) ==
    IF 2 * polarity > POSITIVE_THRESHOLD THEN "Positive"
    ELSE IF 2 * polarity < NEGATIVE_THRESHOLD THEN "Negative"
    ELSE "Neutral"

Classify(polarity) ==
    IF polarity > POSITIVE_THRESHOLD THEN "Positive"
    ELSE IF polarity < NEGATIVE_THRESHOLD THEN "Negative"
    ELSE "Neutral"

\* TextBlob(text): a TypeError unless text is a string
TextBlob(t) ==
    IF t.kind = "str"
    THEN Return([polarity |-> t.polarity, subjectivity |-> t.subjectivity])
    ELSE Raise("TypeError")

AnalyzeSentiment(t) ==
    LET blob == TextBlob(t) IN
    IF blob.err # "none" THEN blob
    ELSE Return([polarity     |-> blob.val.polarity,
                 subjectivity |-> blob.val.subjectivity,
                 sentiment    |-> Classify(blob.val.polarity)])

----------------------------------------------------------------------------
(* SentimentAnalyzer.analyze_comments_batch *)

RequiredColumns ==
    {"comment_id", "stakeholder_name", "comment_text", "provision_reference"}

ResultColumns ==
    RequiredColumns \cup {"sentiment", "polarity_score", "subjectivity_score"}

\* pd.DataFrame(results): a list of no dictionaries gives a frame with no
\* columns
DataFrame(results) ==
    [columns |-> IF results = <<>> THEN {} ELSE ResultColumns,
     rows    |-> results]

\* the dictionary appended for one row
BatchResult(row, a) ==
    [comment_id          |-> row.comment_id,
     stakeholder_name    |-> row.stakeholder_name,
     comment_text        |-> row.comment_text,
     provision_reference |-> row.provision_reference,
     sentiment           |-> a.sentiment,
     polarity_score      |-> Round3(a.polarity),
     subjectivity_score  |-> Round3(a.subjectivity)]

\* the loop over comments_df.iterrows(), from row i on, results so far given
RECURSIVE BatchLoop(_, _, _)
BatchLoop(frame, i, results) ==
    IF i > Len(frame.rows) THEN Return(DataFrame(results))
    ELSE IF "comment_text" \notin frame.columns THEN Raise("KeyError")
    ELSE LET row == frame.rows[i]
             a   == AnalyzeSentiment(row.comment_text)
         IN  IF a.err # "none" THEN a
             ELSE IF ~(RequiredColumns \subseteq frame.columns)
                  THEN Raise("KeyError")
             ELSE BatchLoop(frame, i + 1,
                            Append(results, BatchResult(row, a.val)))

AnalyzeCommentsBatch(frame) == BatchLoop(frame, 1, <<>>)

----------------------------------------------------------------------------
(* SentimentAnalyzer.get_overall_sentiment *)

\* Series.value_counts().to_dict(): the values that occur, with their counts
ValueCounts(s) == [x \in Range(s) |-> CountOf(s, x)]

\* dict.get(key, 0)
Get(d, k) == IF k \in DOMAIN d THEN d[k] ELSE 0

\* A mutant of Percentage: rounded to a whole percent.
Percentage_whole(count, total) == 10 * RoundHalfEven(count * 100, total)

\* round(count / total * 100, 1), in tenths of a percent
Percentage(count, total) == RoundHalfEven(count * 1000, total)

\* A mutant of TotalComments: the index label of the last row instead of len().
TotalComments_last_index(sdf) == Len(sdf.rows) - 1

TotalComments(sdf) == Len(sdf.rows)

\* A mutant of GetOverallSentiment: the label is that of the rounded mean.
GetOverallSentiment_label_of_rounded(sdf) ==
    IF "sentiment" \notin sdf.columns THEN Raise("KeyError")
    ELSE IF Len(sdf.rows) = 0 THEN Raise("ZeroDivisionError")
    ELSE
    LET sentiment_counts == ValueCounts(Column(sdf.rows, "sentiment"))
        total == SumSeq(Column(sdf.rows, "polarity_score"))
        n     == Len(sdf.rows)
        reported == Round3Of(total, n)
        overall == IF reported > POSITIVE_THRESHOLD THEN "Positive"
                   ELSE IF reported < NEGATIVE_THRESHOLD THEN "Negative"
                   ELSE "Neutral"
    IN  Return(
        [overall_sentiment      |-> overall,
         average_polarity       |-> Round3Of(total, n),
         sentiment_distribution |-> sentiment_counts,
         total_comments         |-> TotalComments(sdf),
         positive_percentage    |->
             Percentage(Get(sentiment_counts, "Positive"), n),
         negative_percentage    |->
             Percentage(Get(sentiment_counts, "Negative"), n),
         neutral_percentage     |->
             Percentage(Get(sentiment_counts, "Neutral"), n)])

GetOverallSentiment(sdf) ==
    IF "sentiment" \notin sdf.columns THEN Raise("KeyError")
    ELSE IF Len(sdf.rows) = 0 THEN Raise("ZeroDivisionError")
    ELSE
    LET sentiment_counts == ValueCounts(Column(sdf.rows, "sentiment"))
        total == SumSeq(Column(sdf.rows, "polarity_score"))
        n     == Len(sdf.rows)
        \* avg_polarity is total / n
        overall == IF total > POSITIVE_THRESHOLD * n THEN "Positive"
                   ELSE IF total < NEGATIVE_THRESHOLD * n THEN "Negative"
                   ELSE "Neutral"
    IN  Return(
        [overall_sentiment      |-> overall,
         average_polarity       |-> Round3Of(total, n),
         sentiment_distribution |-> sentiment_counts,
         total_comments         |-> TotalComments(sdf),
         positive_percentage    |->
             Percentage(Get(sentiment_counts, "Positive"), n),
         negative_percentage    |->
             Percentage(Get(sentiment_counts, "Negative"), n),
         neutral_percentage     |->
             Percentage(Get(sentiment_counts, "Neutral"), n)])

----------------------------------------------------------------------------
(* SentimentAnalyzer.get_provision_wise_sentiment and the rest of analyze *)

\* sentiments_df[sentiments_df[c] == v]
SelectRows(rows, c, v) == SelectSeq(rows, LAMBDA r : r[c] = v)

GetProvisionWiseSentiment(sdf) ==
    IF "provision_reference" \notin sdf.columns THEN Raise("KeyError")
    ELSE Return(
        [provision \in Range(Column(sdf.rows, "provision_reference")) |->
            LET provision_data ==
                    SelectRows(sdf.rows, "provision_reference", provision)
            IN  [count        |-> Len(provision_data),
                 avg_polarity |->
                     Round3Of(SumSeq(Column(provision_data, "polarity_score")),
                              Len(provision_data)),
                 sentiments   |->
                     ValueCounts(Column(provision_data, "sentiment"))]])

StakeholderSentiment(sdf) ==
    [stakeholder \in Range(Column(sdf.rows, "stakeholder_name")) |->
        LET stakeholder_data ==
                SelectRows(sdf.rows, "stakeholder_name", stakeholder)
        IN  [positive |->
                 Len(SelectRows(stakeholder_data, "sentiment", "Positive")),
             negative |->
                 Len(SelectRows(stakeholder_data, "sentiment", "Negative")),
             neutral  |->
                 Len(SelectRows(stakeholder_data, "sentiment", "Neutral")),
             total    |-> Len(stakeholder_data)]]

\* key.lower()
Lower(label) ==
    CASE label = "Positive" -> "positive"
      [] label = "Negative" -> "negative"
      [] label = "Neutral"  -> "neutral"

SentimentSummary(distribution) ==
    [k \in {Lower(l) : l \in DOMAIN distribution} |->
        distribution[CHOOSE l \in DOMAIN distribution : Lower(l) = k]]

AnalyzeReturn(det, stats, by_provision) ==
    [summary        |-> SentimentSummary(stats.sentiment_distribution),
     detailed       |-> det,
     by_provision   |-> by_provision,
     by_stakeholder |-> StakeholderSentiment(det),
     overall_stats  |-> stats]

\* analyze(df) from call to return
Analyze(frame) ==
    LET det == AnalyzeCommentsBatch(frame) IN
    IF det.err # "none" THEN det
    ELSE LET stats == GetOverallSentiment(det.val) IN
    IF stats.err # "none" THEN stats
    ELSE LET prov == GetProvisionWiseSentiment(det.val) IN
    IF prov.err # "none" THEN prov
    ELSE Return(AnalyzeReturn(det.val, stats.val, prov.val))

----------------------------------------------------------------------------
(* Strings.  A Python str is the sequence of its characters, each a string
   of length one, so that lower(), the in test, re.sub and split act on it
   character by character. *)

ascii_uppercase ==
    <<"A", "B", "C", "D", "E", "F", "G", "H", "I", "J", "K", "L", "M",
    "N", "O", "P", "Q", "R", "S", "T", "U", "V", "W", "X", "Y", "Z">>

ascii_lowercase ==
    <<"a", "b", "c", "d", "e", "f", "g", "h", "i", "j", "k", "l", "m",
    "n", "o", "p", "q", "r", "s", "t", "u", "v", "w", "x", "y", "z">>

UppercaseLetters == Range(ascii_uppercase)
LowercaseLetters == Range(ascii_lowercase)

\* the characters \s matches and str.split() splits on
Whitespace == {" ", "\t", "\n"}

\* c.lower() of one character
LowerChar(c) ==
    IF c \in UppercaseLetters
    THEN ascii_lowercase[CHOOSE i \in DOMAIN ascii_uppercase :
                             ascii_uppercase[i] = c]
    ELSE c

\* s.lower()
LowerCase(s) == [i \in DOMAIN s |-> LowerChar(s[i])]

\* sub in s
Contains(s, sub) ==
    \E i \in 1 .. Len(s) - Len(sub) + 1 : SubSeq(s, i, i + Len(sub) - 1) = sub

----------------------------------------------------------------------------
(* The tokenizers: lowercase, delete what is outside [a-zA-Z\s], split on
   whitespace, drop the stop words and the short words *)

\* re.sub(r'[^a-zA-Z\s]', '', text)
ReSub(t) ==
    SelectSeq(t, LAMBDA c :
        c \in LowercaseLetters \cup UppercaseLetters \cup Whitespace)

RECURSIVE SplitWords(_, _, _)
SplitWords(rest, word, words) ==
    LET closed == IF word = <<>> THEN words ELSE Append(words, word) IN
    IF rest = <<>> THEN closed
    ELSE IF Head(rest) \in Whitespace THEN SplitWords(Tail(rest), <<>>, closed)
    ELSE SplitWords(Tail(rest), Append(word, Head(rest)), words)

\* text.split()
Split(t) == SplitWords(t, <<>>, <<>>)

\* sep.join(words)
RECURSIVE Join(_, _)
Join(sep, words) ==
    IF words = <<>> THEN <<>>
    ELSE IF Len(words) = 1 THEN words[1]
    ELSE words[1] \o sep \o Join(sep, Tail(words))

\* SentimentAnalyzer.stop_words
AnalyzerStopWords ==
    {<<"t", "h", "e">>, <<"i", "s">>, <<"a", "t">>, <<"w", "h", "i", "c",
    "h">>, <<"o", "n">>, <<"a", "n", "d">>, <<"a">>, <<"a", "n">>, <<"i",
    "n">>, <<"t", "o">>, <<"f", "o", "r">>, <<"o", "f">>, <<"w", "i", "t",
    "h">>, <<"a", "s">>, <<"b", "y">>, <<"t", "h", "a", "t">>, <<"t", "h",
    "i", "s">>, <<"i", "t">>, <<"f", "r", "o", "m">>, <<"o", "r">>, <<"b",
    "u", "t">>, <<"a", "r", "e">>, <<"w", "a", "s">>, <<"w", "e", "r",
    "e">>, <<"b", "e">>, <<"h", "a", "v", "e">>, <<"h", "a", "s">>, <<"h",
    "a", "d">>, <<"d", "o">>, <<"d", "o", "e", "s">>, <<"d", "i", "d">>,
    <<"w", "i", "l", "l">>, <<"w", "o", "u", "l", "d">>, <<"c", "o", "u",
    "l", "d">>, <<"s", "h", "o", "u", "l", "d">>, <<"m", "a", "y">>,
    <<"m", "i", "g", "h", "t">>, <<"m", "u", "s", "t">>, <<"c", "a",
    "n">>, <<"s", "h", "a", "l", "l">>}

\* TextSummarizer.stop_words
SummarizerStopWords ==
    {<<"t", "h", "e">>, <<"i", "s">>, <<"a", "t">>, <<"w", "h", "i", "c",
    "h">>, <<"o", "n">>, <<"a", "n", "d">>, <<"a">>, <<"a", "n">>, <<"i",
    "n">>, <<"t", "o">>, <<"f", "o", "r">>, <<"o", "f">>, <<"w", "i", "t",
    "h">>, <<"a", "s">>, <<"b", "y">>, <<"t", "h", "a", "t">>, <<"t", "h",
    "i", "s">>, <<"i", "t">>, <<"f", "r", "o", "m">>, <<"o", "r">>, <<"b",
    "u", "t">>, <<"a", "r", "e">>, <<"w", "a", "s">>, <<"w", "e", "r",
    "e">>, <<"b", "e">>}

\* WordCloudGenerator.stop_words
WordCloudStopWords ==
    {<<"t", "h", "e">>, <<"i", "s">>, <<"a", "t">>, <<"w", "h", "i", "c",
    "h">>, <<"o", "n">>, <<"a", "n", "d">>, <<"a">>, <<"a", "n">>, <<"i",
    "n">>, <<"t", "o">>, <<"f", "o", "r">>, <<"o", "f">>, <<"w", "i", "t",
    "h">>, <<"a", "s">>, <<"b", "y">>, <<"t", "h", "a", "t">>, <<"t", "h",
    "i", "s">>, <<"i", "t">>, <<"f", "r", "o", "m">>, <<"o", "r">>, <<"b",
    "u", "t">>, <<"a", "r", "e">>, <<"w", "a", "s">>, <<"w", "e", "r",
    "e">>, <<"b", "e">>, <<"h", "a", "v", "e">>, <<"h", "a", "s">>, <<"h",
    "a", "d">>, <<"d", "o">>, <<"d", "o", "e", "s">>, <<"d", "i", "d">>,
    <<"w", "i", "l", "l">>, <<"w", "o", "u", "l", "d">>, <<"c", "o", "u",
    "l", "d">>, <<"s", "h", "o", "u", "l", "d">>, <<"m", "a", "y">>,
    <<"m", "i", "g", "h", "t">>, <<"m", "u", "s", "t">>, <<"c", "a",
    "n">>, <<"s", "h", "a", "l", "l">>, <<"w", "e">>, <<"o", "u", "r">>,
    <<"u", "s">>, <<"t", "h", "e", "m">>, <<"t", "h", "e", "y">>, <<"t",
    "h", "e", "i", "r">>, <<"t", "h", "e", "s", "e">>, <<"t", "h", "o",
    "s", "e">>, <<"b", "e", "e", "n">>, <<"b", "e", "i", "n", "g">>,
    <<"h", "a", "v", "i", "n", "g">>, <<"m", "o", "r", "e">>, <<"v", "e",
    "r", "y">>, <<"s", "o", "m", "e">>, <<"a", "n", "y">>}

\* A mutant of AnalyzerTokens: the words are filtered before they are cleaned.
AnalyzerTokens_filter_first(t) ==
    LET words == SelectSeq(Split(LowerCase(t)), LAMBDA word :
                     word \notin AnalyzerStopWords /\ Len(word) > 3)
    IN  SelectSeq([i \in DOMAIN words |-> ReSub(words[i])],
                  LAMBDA word : word # <<>>)

\* keywords, in extract_keywords
AnalyzerTokens(t) ==
    LET words == Split(ReSub(LowerCase(t)))
    IN  SelectSeq(words, LAMBDA word :
            word \notin AnalyzerStopWords /\ Len(word) > 3)

\* words, in _get_word_frequency
SummarizerTokens(t) ==
    SelectSeq(Split(ReSub(LowerCase(t))), LAMBDA word :
        word \notin SummarizerStopWords /\ Len(word) > 2)

\* WordCloudGenerator._clean_text
CleanText(t) == Join(<<" ">>, Split(ReSub(LowerCase(t))))

\* words after the filter, in WordCloudGenerator.get_word_frequency
WordCloudTokens(t) ==
    LET words == Split(CleanText(t))
    IN  SelectSeq(words, LAMBDA word :
            word \notin WordCloudStopWords /\ Len(word) > 3)

----------------------------------------------------------------------------
(* Counter and SentimentAnalyzer.extract_keywords *)

\* the distinct elements of a list in the order they first occur: the keys
\* of a dict the list is read into
RECURSIVE Keys(_)
Keys(items) ==
    IF items = <<>> THEN <<>>
    ELSE LET front == Keys(SubSeq(items, 1, Len(items) - 1))
             last  == items[Len(items)]
         IN  IF last \in Range(front) THEN front ELSE Append(front, last)

\* Counter(words).items(): (word, count) pairs in the order the words first
\* occur
Counter(words) ==
    LET keys == Keys(words)
    IN  [i \in DOMAIN keys |-> <<keys[i], CountOf(words, keys[i])>>]

\* num / den.  The quotient of two integers as a float is kept as
\* the pair of them: two quotients are the same float when they are the same
\* fraction.
Quotient(num, den) == [num |-> num, den |-> den]

\* a > b for two quotients of positive denominator
Greater(a, b) == a.num * b.den > b.num * a.den

\* sorted(items, key=..., reverse=True), keys[i] the key of items[i]: the
\* sort is stable, so items of equal key stay in the order they had
SortedDescending(items, keys) ==
    LET Before(i) == {j \in DOMAIN items :
                        \/ Greater(keys[j], keys[i])
                        \/ ~Greater(keys[i], keys[j]) /\ j < i}
    IN  [r \in DOMAIN items |->
            items[CHOOSE i \in DOMAIN items : Cardinality(Before(i)) + 1 = r]]

\* items[:n] for n >= 0
Take(items, n) ==
    SubSeq(items, 1, IF n < Len(items) THEN n ELSE Len(items))

\* A mutant of MostCommon: the first n items in insertion order.
MostCommon_unsorted(items, n) == IF n <= 0 THEN <<>> ELSE Take(items, n)

\* Counter.most_common(n) on the items of the Counter
MostCommon(items, n) ==
    IF n <= 0 THEN <<>>
    ELSE Take(SortedDescending(items,
                 [i \in DOMAIN items |-> Quotient(items[i][2], 1)]), n)

ExtractKeywords(t, num_keywords) ==
    MostCommon(Counter(AnalyzerTokens(t)), num_keywords)

----------------------------------------------------------------------------
(* TextSummarizer._get_word_frequency *)

\* A mutant of MaxFreq: the sum of the counts instead of the largest.
MaxFreq_total(items) ==
    IF items = <<>> THEN 1 ELSE SumSeq([i \in DOMAIN items |-> items[i][2]])

\* max_freq = max(word_freq.values()) if word_freq else 1
MaxFreq(items) ==
    IF items = <<>> THEN 1
    ELSE CHOOSE m \in {items[i][2] : i \in DOMAIN items} :
             \A i \in DOMAIN items : items[i][2] <= m

\* the items of the Counter _get_word_frequency returns, in the order the
\* words first occur
WordFrequency(t) ==
    LET word_freq == Counter(SummarizerTokens(t))
        max_freq  == MaxFreq(word_freq)
    IN  [i \in DOMAIN word_freq |->
            <<word_freq[i][1], Quotient(word_freq[i][2], max_freq)>>]

----------------------------------------------------------------------------
(* TextSummarizer.summarize_single_comment *)

RECURSIVE SplitAt(_, _, _, _)
SplitAt(rest, sep, piece, pieces) ==
    IF rest = <<>> THEN Append(pieces, piece)
    ELSE IF Head(rest) = sep
    THEN SplitAt(Tail(rest), sep, <<>>, Append(pieces, piece))
    ELSE SplitAt(Tail(rest), sep, Append(piece, Head(rest)), pieces)

\* text.split(sep) for a separator of one character
SplitOn(t, sep) == SplitAt(t, sep, <<>>, <<>>)

\* sentence.strip()
RECURSIVE Strip(_)
Strip(t) ==
    IF t = <<>> THEN t
    ELSE IF Head(t) \in Whitespace THEN Strip(Tail(t))
    ELSE IF t[Len(t)] \in Whitespace THEN Strip(SubSeq(t, 1, Len(t) - 1))
    ELSE t

\* '...'
Ellipsis == <<".", ".", ".">>

\* word_freq.get(word, 0)
WeightOf(word_freq, word) ==
    IF \E i \in DOMAIN word_freq : word_freq[i][1] = word
    THEN word_freq[CHOOSE i \in DOMAIN word_freq : word_freq[i][1] = word][2]
    ELSE Quotient(0, 1)

\* sum(...) of quotients
RECURSIVE SumQuotients(_)
SumQuotients(qs) ==
    IF qs = <<>> THEN Quotient(0, 1)
    ELSE LET rest == SumQuotients(Tail(qs))
         IN  Quotient(Head(qs).num * rest.den + rest.num * Head(qs).den,
                      Head(qs).den * rest.den)

\* the value stored under a sentence
SentenceScore(sentence, word_freq) ==
    LET words_in_sentence == Split(LowerCase(sentence))
        score == SumQuotients([i \in DOMAIN words_in_sentence |->
                     WeightOf(word_freq, words_in_sentence[i])])
    IN  IF words_in_sentence # <<>>
        THEN Quotient(score.num, score.den * Len(words_in_sentence))
        ELSE Quotient(0, 1)

\* the sentences that are not empty once stripped, in their order
StrippedSentences(sentences) ==
    SelectSeq([i \in DOMAIN sentences |-> Strip(sentences[i])],
              LAMBDA sentence : Len(sentence) > 0)

\* A mutant of SentenceScores: a list, in which a sentence that occurs again
\* stands again.
SentenceScores_with_repeats(sentences, word_freq) ==
    LET stripped == StrippedSentences(sentences)
    IN  [i \in DOMAIN stripped |->
            <<stripped[i], SentenceScore(stripped[i], word_freq)>>]

\* sentence_scores.items() after the loop: a dict, so a sentence that occurs
\* again keeps the place of its first occurrence
SentenceScores(sentences, word_freq) ==
    LET keys == Keys(StrippedSentences(sentences))
    IN  [i \in DOMAIN keys |->
            <<keys[i], SentenceScore(keys[i], word_freq)>>]

\* A mutant of SummarizeSingleComment: the two sentences are returned however
\* long they are.
SummarizeSingleComment_untruncated(t, max_length) ==
    LET words == Split(t) IN
    IF Len(words) <= max_length THEN t
    ELSE LET sentences == SplitOn(t, ".") IN
    IF Len(sentences) <= 2
    THEN Join(<<" ">>, Take(words, max_length)) \o Ellipsis
    ELSE LET sentence_scores == SentenceScores(sentences, WordFrequency(t))
             top_sentences ==
                 Take(SortedDescending(sentence_scores,
                          [i \in DOMAIN sentence_scores |->
                              sentence_scores[i][2]]), 2)
             summary ==
                 Join(<<".", " ">>,
                      [i \in DOMAIN top_sentences |-> top_sentences[i][1]])
             summary_words == Split(summary)
         IN  summary

SummarizeSingleComment(t, max_length) ==
    LET words == Split(t) IN
    IF Len(words) <= max_length THEN t
    ELSE LET sentences == SplitOn(t, ".") IN
    IF Len(sentences) <= 2
    THEN Join(<<" ">>, Take(words, max_length)) \o Ellipsis
    ELSE LET sentence_scores == SentenceScores(sentences, WordFrequency(t))
             top_sentences ==
                 Take(SortedDescending(sentence_scores,
                          [i \in DOMAIN sentence_scores |->
                              sentence_scores[i][2]]), 2)
             summary ==
                 Join(<<".", " ">>,
                      [i \in DOMAIN top_sentences |-> top_sentences[i][1]])
             summary_words == Split(summary)
         IN  IF Len(summary_words) > max_length
             THEN Join(<<" ">>, Take(summary_words, max_length)) \o Ellipsis
             ELSE summary

----------------------------------------------------------------------------
(* TextSummarizer.generate_overall_summary *)

\* the list meaningful words are looked up in
MeaningfulWords ==
    {<<"c", "o", "m", "p", "l", "i", "a", "n", "c", "e">>, <<"r", "e",
    "g", "u", "l", "a", "t", "i", "o", "n">>, <<"b", "u", "s", "i", "n",
    "e", "s", "s">>, <<"c", "o", "s", "t">>, <<"i", "m", "p", "l", "e",
    "m", "e", "n", "t", "a", "t", "i", "o", "n">>, <<"t", "r", "a", "n",
    "s", "p", "a", "r", "e", "n", "c", "y">>, <<"g", "o", "v", "e", "r",
    "n", "a", "n", "c", "e">>, <<"r", "e", "f", "o", "r", "m">>, <<"b",
    "u", "r", "d", "e", "n">>, <<"s", "u", "p", "p", "o", "r", "t">>,
    <<"a", "c", "c", "o", "u", "n", "t", "a", "b", "i", "l", "i", "t",
    "y">>, <<"f", "r", "a", "m", "e", "w", "o", "r", "k">>, <<"a", "m",
    "e", "n", "d", "m", "e", "n", "t">>, <<"p", "r", "o", "v", "i", "s",
    "i", "o", "n">>, <<"r", "e", "q", "u", "i", "r", "e", "m", "e", "n",
    "t">>, <<"d", "o", "c", "u", "m", "e", "n", "t", "a", "t", "i", "o",
    "n">>, <<"i", "n", "n", "o", "v", "a", "t", "i", "o", "n">>, <<"g",
    "r", "o", "w", "t", "h">>}

\* the first element of every pair
Firsts(items) == [i \in DOMAIN items |-> items[i][1]]

\* A mutant of ExtractSentimentKeywords: the words are not looked up in the
\* list.
ExtractSentimentKeywords_open_vocabulary(t, num_keywords) ==
    LET words == SelectSeq(Split(ReSub(LowerCase(t))), LAMBDA word :
                     word \notin SummarizerStopWords /\ Len(word) > 3)
    IN  Firsts(MostCommon(Counter(words), num_keywords))

\* TextSummarizer._extract_sentiment_keywords
ExtractSentimentKeywords(t, num_keywords) ==
    LET words == SelectSeq(Split(ReSub(LowerCase(t))), LAMBDA word :
                     word \notin SummarizerStopWords /\ Len(word) > 3)
        meaningful_words ==
            SelectSeq(words, LAMBDA word : word \in MeaningfulWords)
    IN  Firsts(MostCommon(Counter(meaningful_words), num_keywords))

\* series.value_counts() and what .head(k) keeps of it: the (value, count)
\* pairs by descending count.  The order of values of equal count is not
\* fixed by value_counts, so every order of them is a possible outcome.
ValueCountsOrders(values, k) ==
    LET counts == ValueCounts(values)
        n == IF Cardinality(DOMAIN counts) < k
             THEN Cardinality(DOMAIN counts) ELSE k
    IN  {[i \in 1 .. n |-> <<order[i], counts[order[i]]>>] :
            order \in {o \in [1 .. Cardinality(DOMAIN counts) -> DOMAIN counts] :
                /\ \A i, j \in DOMAIN o : o[i] = o[j] => i = j
                /\ \A i, j \in DOMAIN o : i < j => counts[o[i]] >= counts[o[j]]}}

\* ' '.join(rows['comment_text'].tolist())
JoinTexts(rows) == Join(<<" ">>, Column(rows, "comment_text"))

\* a section of the narrative that lists keywords, if it is there
KeywordSection(rows) ==
    IF Len(rows) > 0
    THEN [words |-> ExtractSentimentKeywords(JoinTexts(rows), 3)]
    ELSE None

\* The narrative generate_overall_summary returns, section by section, for
\* one outcome of the two value_counts: the string is these sections in this
\* order under their headings.
OverallSummary(comments_df, sdf, sentiment_counts, top_provisions) ==
    LET total_comments == Len(comments_df.rows)
        word_freq == WordFrequency(JoinTexts(comments_df.rows))
        top_themes ==
            Take(SortedDescending(word_freq,
                     [i \in DOMAIN word_freq |-> word_freq[i][2]]), 5)
    IN  [total_comments |-> total_comments,
         sentiment_overview |->
             [i \in DOMAIN sentiment_counts |->
                 [sentiment |-> sentiment_counts[i][1],
                  count |-> sentiment_counts[i][2],
                  percentage |->
                      Percentage(sentiment_counts[i][2], total_comments)]],
         most_discussed_provisions |-> top_provisions,
         main_topics |-> Firsts(top_themes),
         positive_feedback |->
             KeywordSection(SelectRows(sdf.rows, "sentiment", "Positive")),
         concerns_raised |->
             KeywordSection(SelectRows(sdf.rows, "sentiment", "Negative"))]

\* the narratives generate_overall_summary(comments_df, sentiments_df) may
\* return
GenerateOverallSummary(comments_df, sdf) ==
    {OverallSummary(comments_df, sdf, sentiment_counts, top_provisions) :
        sentiment_counts \in
            ValueCountsOrders(Column(sdf.rows, "sentiment"), 3),
        top_provisions \in
            ValueCountsOrders(Column(comments_df.rows,
                                     "provision_reference"), 3)}

----------------------------------------------------------------------------
(* TextSummarizer.create_stakeholder_summary *)

\* the keywords of the if/elif chain, branch by branch

LegalKeywords ==
    {<<"f", "i", "r", "m">>, <<"l", "e", "g", "a", "l">>, <<"l", "a", "w",
    "y", "e", "r">>}

BusinessKeywords ==
    {<<"b", "u", "s", "i", "n", "e", "s", "s">>, <<"c", "o", "m", "p",
    "a", "n", "y">>, <<"c", "e", "o">>, <<"f", "o", "u", "n", "d", "e",
    "r">>}

GovernmentKeywords ==
    {<<"m", "i", "n", "i", "s", "t", "r", "y">>, <<"g", "o", "v", "e",
    "r", "n", "m", "e", "n", "t">>}

AssociationKeywords ==
    {<<"a", "s", "s", "o", "c", "i", "a", "t", "i", "o", "n">>, <<"c",
    "h", "a", "m", "b", "e", "r">>, <<"g", "r", "o", "u", "p">>, <<"o",
    "r", "g">>}

\* the keys of stakeholder_groups
StakeholderGroups ==
    {"Business", "Legal", "Government", "Individual", "Association"}

ContainsAny(name, keywords) == \E k \in keywords : Contains(name, k)

\* A mutant of StakeholderGroup: Business is tested before Legal.
StakeholderGroup_business_first(stakeholder_name) ==
    LET name == LowerCase(stakeholder_name) IN
    IF ContainsAny(name, BusinessKeywords) THEN "Business"
    ELSE IF ContainsAny(name, LegalKeywords) THEN "Legal"
    ELSE IF ContainsAny(name, GovernmentKeywords) THEN "Government"
    ELSE IF ContainsAny(name, AssociationKeywords) THEN "Association"
    ELSE "Individual"

\* the list one row is appended to: name = row['stakeholder_name'].lower()
\* and the if/elif chain
StakeholderGroup(stakeholder_name) ==
    LET name == LowerCase(stakeholder_name) IN
    IF ContainsAny(name, LegalKeywords) THEN "Legal"
    ELSE IF ContainsAny(name, BusinessKeywords) THEN "Business"
    ELSE IF ContainsAny(name, GovernmentKeywords) THEN "Government"
    ELSE IF ContainsAny(name, AssociationKeywords) THEN "Association"
    ELSE "Individual"

\* ''.join(pieces), and the concatenation of lists
RECURSIVE Concat(_)
Concat(pieces) ==
    IF pieces = <<>> THEN <<>> ELSE Head(pieces) \o Concat(Tail(pieces))

\* A mutant of GroupComments: every row of sentiments_df with the comment_id
\* is appended, not the first alone.
GroupComments_all_matches(comments_df, sdf, group) ==
    LET members == SelectSeq(comments_df.rows, LAMBDA row :
                       StakeholderGroup(row.stakeholder_name) = group)
    IN  Concat([i \in DOMAIN members |->
            SelectRows(sdf.rows, "comment_id", members[i].comment_id)])

\* stakeholder_groups[group] after the loop: for each row of comments_df in
\* the group, the first row of sentiments_df with the row's comment_id
GroupComments(comments_df, sdf, group) ==
    LET members == SelectSeq(comments_df.rows, LAMBDA row :
                       StakeholderGroup(row.stakeholder_name) = group)
    IN  [i \in DOMAIN members |->
            SelectRows(sdf.rows, "comment_id", members[i].comment_id)[1]]

CreateStakeholderSummary(comments_df, sdf) ==
    IF comments_df.rows # <<>>
           /\ ~({"stakeholder_name", "comment_id"} \subseteq comments_df.columns)
    THEN Raise("KeyError")
    ELSE IF comments_df.rows # <<>> /\ "comment_id" \notin sdf.columns
    THEN Raise("KeyError")
    ELSE IF \E i \in DOMAIN comments_df.rows :
                SelectRows(sdf.rows, "comment_id",
                           comments_df.rows[i].comment_id) = <<>>
    THEN Raise("IndexError")
    ELSE Return(
        [group \in {g \in StakeholderGroups :
                        GroupComments(comments_df, sdf, g) # <<>>} |->
            LET comments == GroupComments(comments_df, sdf, group)
            IN  [count |-> Len(comments),
                 sentiment_distribution |->
                     ValueCounts(Column(comments, "sentiment")),
                 average_polarity |->
                     Round3Of(SumSeq(Column(comments, "polarity_score")),
                              Len(comments))]])

----------------------------------------------------------------------------
(* Inputs *)

\* stakeholder names
JohnDoe == <<"J", "o", "h", "n", " ", "D", "o", "e">>
JaneSmith == <<"J", "a", "n", "e", " ", "S", "m", "i", "t", "h">>
AcmeCorp == <<"A", "C", "M", "E", " ", "C", "o", "r", "p">>
GreenInitiative ==
    <<"G", "r", "e", "e", "n", " ", "I", "n", "i", "t", "i", "a", "t",
    "i", "v", "e">>
BusinessLawFirm ==
    <<"B", "u", "s", "i", "n", "e", "s", "s", " ", "L", "a", "w", " ",
    "F", "i", "r", "m">>
FoundersAssociation ==
    <<"F", "o", "u", "n", "d", "e", "r", "s", " ", "A", "s", "s", "o",
    "c", "i", "a", "t", "i", "o", "n">>
MinistryWorkingGroup ==
    <<"M", "i", "n", "i", "s", "t", "r", "y", " ", "W", "o", "r", "k",
    "i", "n", "g", " ", "G", "r", "o", "u", "p">>
ChamberOfCommerce ==
    <<"C", "h", "a", "m", "b", "e", "r", " ", "o", "f", " ", "C", "o",
    "m", "m", "e", "r", "c", "e">>

\* every string, by its lexicon scores, and the two kinds of non-string
Texts ==
    {Str(p, s) : p \in -MaxPolarity .. MaxPolarity, s \in {0, 6667}}
        \cup {Number, NaN}

Comment(id, name, t, provision) ==
    [comment_id          |-> id,
     stakeholder_name    |-> name,
     comment_text        |-> t,
     provision_reference |-> provision]

\* The rows batches are made of.  The polarities sit on and next to the two
\* thresholds; 0.0625 is an exact binary tie of round(x, 3); 0.1012 is
\* reported as 0.101, which with scores of 0.1 gives a mean between 0.1 and
\* 0.1005.
Comments ==
    {Comment(1, JohnDoe,              Str(1004, 6667),   "Section 2.1"),
     Comment(2, JaneSmith,            Str(1000, 5000),   "Section 3.2"),
     Comment(3, AcmeCorp,             Str(996, 3004),    "Section 2.1"),
     Comment(4, JohnDoe,              Str(-1004, 10000), "Section 3.2"),
     Comment(5, ChamberOfCommerce,    Str(-1000, 625),   "Section 4.1"),
     Comment(6, BusinessLawFirm,      Str(625, 1875),    "Section 4.1"),
     Comment(7, FoundersAssociation,  Str(0, 0),         "Section 3.2"),
     Comment(8, MinistryWorkingGroup, Str(8000, 7500),   "Section 2.1"),
     Comment(9, JaneSmith,            Number,            "Section 2.1"),
     Comment(11, AcmeCorp,            Str(1012, 2500),   "Section 4.1")}

RECURSIVE SeqsUpTo(_, _)
SeqsUpTo(S, n) ==
    IF n = 0 THEN {<<>>}
    ELSE LET shorter == SeqsUpTo(S, n - 1)
         IN  shorter \cup {Append(s, x) : s \in shorter, x \in S}

Batches == {[columns |-> RequiredColumns, rows |-> rows] :
                rows \in SeqsUpTo(Comments, MaxBatch)}

----------------------------------------------------------------------------
(* Inputs of the text functions *)

\* how many parts a stakeholder name is put together from
MaxNameParts == 3

\* every keyword of the if/elif chain in some case, the halves of one
\* keyword, a blank and a part that belongs to no keyword
NameParts ==
    {<<"L", "e", "g", "a", "l">>,
     <<"f", "i", "r", "m">>,
     <<"L", "A", "W", "Y", "E", "R">>,
     <<"B", "u", "s", "i", "n", "e", "s", "s">>,
     <<"C", "o", "m", "p", "a", "n", "y">>,
     <<"C", "E", "O">>,
     <<"f", "o", "u", "n", "d", "e", "r">>,
     <<"M", "i", "n", "i", "s", "t", "r", "y">>,
     <<"g", "o", "v", "e", "r", "n", "m", "e", "n", "t">>,
     <<"A", "s", "s", "o", "c", "i", "a", "t", "i", "o", "n">>,
     <<"c", "h", "a", "m", "b", "e", "r">>,
     <<"G", "r", "o", "u", "p">>,
     <<"o", "r", "g">>,
     <<" ">>,
     <<"J", "o">>,
     <<"l", "e">>,
     <<"g", "a", "l">>}

AcmeLegalPartners ==
    <<"A", "c", "m", "e", " ", "L", "e", "g", "a", "l", " ", "P", "a",
    "r", "t", "n", "e", "r", "s">>

Names ==
    {Concat(parts) : parts \in SeqsUpTo(NameParts, MaxNameParts)}
        \cup {AcmeLegalPartners}

\* how many pieces a text is put together from
MaxPieces == 3

\* Pieces of texts: a word no tokenizer drops; a stop word of all three, with
\* a capital; a stop word of the analyzer and the word cloud only; a word of
\* three letters; a word with a capital and a full stop; a stop word of the
\* word cloud only; two pieces that make up a stop word once the digit is
\* deleted; a blank.
TextPieces ==
    {<<"c", "o", "s", "t", " ">>,
     <<"T", "h", "a", "t", "\t">>,
     <<"w", "i", "l", "l", " ">>,
     <<"t", "a", "x", " ">>,
     <<"P", "l", "a", "n", ".", " ">>,
     <<"v", "e", "r", "y", "\n">>,
     <<"t", "h">>,
     <<"9", "a", "t", " ">>,
     <<" ">>}

PlainTexts == {Concat(pieces) : pieces \in SeqsUpTo(TextPieces, MaxPieces)}

WordFrequencyCalls ==
    {[fn |-> "_get_word_frequency", text |-> t] : t \in PlainTexts}

\* the largest num_keywords
MaxKeywords == 2

ExtractKeywordsCalls ==
    {[fn |-> "extract_keywords", text |-> t, num_keywords |-> n] :
        t \in PlainTexts, n \in 0 .. MaxKeywords}

\* how many pieces a comment to summarize is put together from
MaxSentences == 4

\* the largest max_length
MaxWords == 3

\* Pieces of comments: sentences of one and of two words; a sentence with a
\* stop word and capitals; a sentence of one word twice; a word with a comma
\* and no full stop; a full stop; a word.
SentencePieces ==
    {<<"p", "l", "a", "n", ".", " ">>,
     <<"c", "o", "s", "t", " ", "t", "a", "x", ".", " ">>,
     <<"T", "h", "e", " ", "P", "l", "a", "n", ".", " ">>,
     <<"p", "l", "a", "n", " ", "p", "l", "a", "n", ".", " ">>,
     <<"t", "a", "x", ",", " ">>,
     <<".">>,
     <<"c", "o", "s", "t">>}

Comments_to_summarize ==
    {Concat(pieces) : pieces \in SeqsUpTo(SentencePieces, MaxSentences)}

SummarizeCalls ==
    {[fn |-> "summarize_single_comment", text |-> t, max_length |-> n] :
        t \in Comments_to_summarize, n \in 0 .. MaxWords}

\* how many records the comments of a narrative are
MaxRecords == 2

\* Texts of records: a word outside the list three times and a word of the
\* list once; a word of the list made by deleting a hyphen, and another
\* twice; four words of the list; no word of the list; the empty text; a
\* word of the list with a capital and a mark.
RecordTexts ==
    {<<"p", "l", "a", "n", " ", "p", "l", "a", "n", " ", "p", "l", "a", "n", " ", "c", "o", "s", "t">>,
     <<"R", "e", "-", "f", "o", "r", "m", " ", "g", "r", "o", "w", "t", "h", " ", "g", "r", "o", "w", "t", "h">>,
     <<"s", "u", "p", "p", "o", "r", "t", " ", "g", "r", "o", "w", "t", "h", " ", "r", "e", "f", "o", "r", "m", " ", "b", "u", "r", "d", "e", "n">>,
     <<"t", "h", "e", " ", "c", "o", "s", "t", "s">>,
     <<>>,
     <<"B", "u", "r", "d", "e", "n", "!">>}

\* what analyze_sentiment returns for a text the lexicon gives the label
LabelledAnalysis(label) ==
    [sentiment |-> label,
     polarity |-> CASE label = "Positive" -> 5000
                    [] label = "Negative" -> -5000
                    [] label = "Neutral" -> 0,
     subjectivity |-> 5000]

\* a record and what analyze_sentiment returns for its text: the label is
\* the lexicon's, which may give any label to any text
ScoredComments ==
    {[comment_text |-> t, provision_reference |-> p,
      analysis |-> LabelledAnalysis(l)] :
        t \in RecordTexts, p \in {"Section 2.1", "Section 3.2"},
        l \in {"Positive", "Negative", "Neutral"}}

\* comments_df and the sentiments_df analyze_comments_batch makes of it
NarrativeCall(scored) ==
    LET comments == [i \in DOMAIN scored |->
                        Comment(i, JohnDoe, scored[i].comment_text,
                                scored[i].provision_reference)]
    IN  [fn |-> "generate_overall_summary",
         comments_df |-> [columns |-> RequiredColumns, rows |-> comments],
         sentiments_df |->
             DataFrame([i \in DOMAIN scored |->
                           BatchResult(comments[i], scored[i].analysis)])]

\* the batches of up to MaxRecords records
NarrativeCalls ==
    {NarrativeCall(scored) :
        scored \in SeqsUpTo(ScoredComments, MaxRecords) \ {<<>>}}

----------------------------------------------------------------------------
(* The Streamlit session before anything has happened *)

\* what a script run leaves on the page: which screen, the st.error message,
\* the columns it names, the results handed to display_results
Page(screen, message, missing, results) ==
    [screen |-> screen, message |-> message, missing |-> missing,
     results |-> results]

UploadPage == Page("upload", "", <<>>, None)

\* no text function has been called
NoCall ==
    /\ call = None
    /\ result = None

NoSession ==
    /\ uploaded_data = None
    /\ analysis_results = None
    /\ uploaded_file = None
    /\ rerun = FALSE
    /\ shown = UploadPage
    /\ analysed = None

\* analyze(df) has not been called
NoAnalysis ==
    /\ text = None
    /\ analysis = None
    /\ df = None
    /\ pc = "idle"
    /\ detailed = None
    /\ overall_stats = None
    /\ provision_sentiment = None
    /\ returned = None
    /\ error = "none"
    /\ group_summary = None

----------------------------------------------------------------------------
(* One call of analyze_sentiment *)

InitSentiment ==
    /\ text \in Texts
    /\ analysis = None
    /\ df = None
    /\ pc = "idle"
    /\ detailed = None
    /\ overall_stats = None
    /\ provision_sentiment = None
    /\ returned = None
    /\ error = "none"
    /\ NoSession
    /\ group_summary = None
    /\ NoCall

CallAnalyzeSentiment ==
    /\ analysis = None
    /\ analysis' = AnalyzeSentiment(text)
    /\ UNCHANGED <<text, df, pc, detailed, overall_stats,
                   provision_sentiment, returned, error>>
    /\ UNCHANGED <<group_summary, appVars, textVars>>

NextSentiment == CallAnalyzeSentiment

SpecSentiment == InitSentiment /\ [][NextSentiment]_vars

----------------------------------------------------------------------------
(* One call of analyze(df), function by function *)

Init ==
    /\ text = None
    /\ analysis = None
    /\ df \in Batches
    /\ pc = "analyze_comments_batch"
    /\ detailed = None
    /\ overall_stats = None
    /\ provision_sentiment = None
    /\ returned = None
    /\ error = "none"
    /\ NoSession
    /\ group_summary = None
    /\ NoCall

\* detailed_results = self.analyze_comments_batch(df)
StepAnalyzeCommentsBatch ==
    /\ pc = "analyze_comments_batch"
    /\ LET r == AnalyzeCommentsBatch(df) IN
         IF r.err = "none"
         THEN /\ detailed' = r.val
              /\ pc' = "get_overall_sentiment"
              /\ error' = error
         ELSE /\ detailed' = detailed
              /\ pc' = "raised"
              /\ error' = r.err
    /\ UNCHANGED <<text, analysis, df, overall_stats, provision_sentiment,
                   returned>>
    /\ UNCHANGED <<group_summary, appVars, textVars>>

\* overall_stats = self.get_overall_sentiment(detailed_results)
StepGetOverallSentiment ==
    /\ pc = "get_overall_sentiment"
    /\ LET r == GetOverallSentiment(detailed) IN
         IF r.err = "none"
         THEN /\ overall_stats' = r.val
              /\ pc' = "get_provision_wise_sentiment"
              /\ error' = error
         ELSE /\ overall_stats' = overall_stats
              /\ pc' = "raised"
              /\ error' = r.err
    /\ UNCHANGED <<text, analysis, df, detailed, provision_sentiment,
                   returned>>
    /\ UNCHANGED <<group_summary, appVars, textVars>>

\* provision_sentiment = self.get_provision_wise_sentiment(detailed_results)
StepGetProvisionWiseSentiment ==
    /\ pc = "get_provision_wise_sentiment"
    /\ LET r == GetProvisionWiseSentiment(detailed) IN
         IF r.err = "none"
         THEN /\ provision_sentiment' = r.val
              /\ pc' = "stakeholders"
              /\ error' = error
         ELSE /\ provision_sentiment' = provision_sentiment
              /\ pc' = "raised"
              /\ error' = r.err
    /\ UNCHANGED <<text, analysis, df, detailed, overall_stats, returned>>
    /\ UNCHANGED <<group_summary, appVars, textVars>>

\* the stakeholder loop, the lowercase summary and the return
StepReturn ==
    /\ pc = "stakeholders"
    /\ returned' = AnalyzeReturn(detailed, overall_stats, provision_sentiment)
    /\ pc' = "returned"
    /\ UNCHANGED <<text, analysis, df, detailed, overall_stats,
                   provision_sentiment, error>>
    /\ UNCHANGED <<group_summary, appVars, textVars>>

\* stakeholder_summary = self.create_stakeholder_summary(df, sentiments_df),
\* which summarize(df, sentiment_results['detailed']) calls on what analyze
\* returned
StepCreateStakeholderSummary ==
    /\ pc = "returned"
    /\ LET r == CreateStakeholderSummary(df, returned.detailed) IN
         IF r.err = "none"
         THEN /\ group_summary' = r.val
              /\ pc' = "summarized"
              /\ error' = error
         ELSE /\ group_summary' = group_summary
              /\ pc' = "raised"
              /\ error' = r.err
    /\ UNCHANGED <<text, analysis, df, detailed, overall_stats,
                   provision_sentiment, returned>>
    /\ UNCHANGED <<appVars, textVars>>

Next ==
    \/ StepAnalyzeCommentsBatch
    \/ StepGetOverallSentiment
    \/ StepGetProvisionWiseSentiment
    \/ StepReturn
    \/ StepCreateStakeholderSummary

Spec == Init /\ [][Next]_vars

----------------------------------------------------------------------------
(* streamlit_app.py: perform_analysis *)

\* perform_analysis(df).  The texts are represented by their lexicon scores,
\* so the summaries and word clouds made of their words are left out of the
\* result; an exception raised by analyze(df) leaves perform_analysis.
PerformAnalysis(frame) ==
    LET sentiment_results == Analyze(frame) IN
    IF sentiment_results.err # "none" THEN sentiment_results
    ELSE Return(
        [sentiment_summary        |-> sentiment_results.val.summary,
         detailed                 |-> sentiment_results.val.detailed,
         sentiment_by_provision   |-> sentiment_results.val.by_provision,
         sentiment_by_stakeholder |-> sentiment_results.val.by_stakeholder,
         statistics |->
             [total_comments       |-> Len(frame.rows),
              unique_stakeholders  |->
                  Cardinality(Range(Column(frame.rows, "stakeholder_name"))),
              provisions_discussed |->
                  Cardinality(Range(Column(frame.rows,
                                           "provision_reference")))]])

----------------------------------------------------------------------------
(* streamlit_app.py: main, the upload screen *)

required_columns ==
    <<"comment_id", "stakeholder_name", "comment_text", "provision_reference">>

\* [col for col in required_columns if col not in df.columns]
MissingColumns(frame) ==
    SelectSeq(required_columns, LAMBDA col : col \notin frame.columns)

\* df.dropna(subset=['comment_text'])
DropNaText(frame) ==
    [frame EXCEPT !.rows = SelectSeq(@, LAMBDA r : r.comment_text.kind # "nan")]

\* The body of "if uploaded_file is not None": the page it leaves and, when
\* the preview and the Analyze button are reached, the cleaned df.
UploadScreen(file) ==
    IF ~file.readable
    THEN [page |-> Page("error", "Error reading file", <<>>, None),
          df   |-> None]
    ELSE IF MissingColumns(file.frame) # <<>>
    THEN [page |-> Page("error", "Missing required columns",
                        MissingColumns(file.frame), None),
          df   |-> None]
    ELSE LET cleaned == DropNaText(file.frame) IN
         IF Len(cleaned.rows) = 0
         THEN [page |-> Page("error", "No valid comments found in the file",
                             <<>>, None),
               df   |-> None]
         ELSE [page |-> Page("preview", "", <<>>, None), df |-> cleaned]

----------------------------------------------------------------------------
(* Files *)

\* A table.  Its rows are written with all four fields; columns says which
\* of them the table has, and a column that is not among them cannot be read
\* (KeyError).
Frame(columns, rows) == [columns |-> columns, rows |-> rows]

File(readable, frame) == [found |-> TRUE, readable |-> readable, frame |-> frame]

\* no file of that name: pd.read_csv raises FileNotFoundError
NoFile == [found |-> FALSE, readable |-> FALSE, frame |-> Frame({}, <<>>)]

RowPositive == Comment(1, JohnDoe, Str(1004, 6667), "Section 2.1")
RowNegative == Comment(4, JohnDoe, Str(-1004, 10000), "Section 3.2")
RowNull     == Comment(10, JaneSmith, NaN, "Section 3.2")
RowNumber   == Comment(9, JaneSmith, Number, "Section 2.1")

\* the tables a CSV or Excel file may hold
Frames ==
    {Frame(RequiredColumns, <<RowPositive, RowNegative>>),
     Frame(RequiredColumns, <<RowPositive, RowNull, RowNegative>>),
     Frame(RequiredColumns, <<RowNull>>),
     Frame(RequiredColumns, <<RowNumber>>),
     Frame(RequiredColumns, <<>>),
     Frame(RequiredColumns \ {"comment_text"}, <<RowPositive>>),
     Frame(RequiredColumns \ {"comment_id", "provision_reference"},
           <<RowPositive, RowNegative>>)}

\* what the user may put into the uploader
Uploads == {File(TRUE, f) : f \in Frames} \cup {File(FALSE, Frame({}, <<>>))}

\* what 'sample_data.csv' in the working directory may be
SampleFiles == Uploads \cup {NoFile}

\* The fallback table of "Load Sample Data".  The scores of its five
\* sentences are the lexicon's; the values here stand for them.
HardcodedSample ==
    Frame(RequiredColumns,
          <<Comment(1, JohnDoe,         Str(8000, 7500),  "Section 2.1"),
            Comment(2, JaneSmith,       Str(0, 0),        "Section 3.2"),
            Comment(3, AcmeCorp,        Str(10000, 3000), "Section 2.1"),
            Comment(4, JohnDoe,         Str(0, 5000),     "Section 3.2"),
            Comment(5, GreenInitiative, Str(10000, 10000), "Section 4.1")>>)

----------------------------------------------------------------------------
(* streamlit_app.py: main, one script run per action *)

InitApp ==
    /\ text = None
    /\ analysis = None
    /\ df = None
    /\ pc = "idle"
    /\ detailed = None
    /\ overall_stats = None
    /\ provision_sentiment = None
    /\ returned = None
    /\ error = "none"
    /\ NoSession
    /\ group_summary = None
    /\ NoCall

\* "Load Sample Data" is pressed: the run ends in the sidebar
LoadSampleData ==
    /\ ~rerun
    /\ \E sample \in SampleFiles :
         IF ~sample.found
         THEN /\ uploaded_data' = HardcodedSample
              /\ rerun' = TRUE
              /\ shown' = shown
         ELSE IF sample.readable
         THEN /\ uploaded_data' = sample.frame
              /\ rerun' = TRUE
              /\ shown' = shown
         ELSE \* pd.read_csv raises something else: the run ends there
              /\ uploaded_data' = uploaded_data
              /\ rerun' = rerun
              /\ shown' = Page("exception", "ParserError", <<>>, None)
    /\ UNCHANGED <<analysis_results, uploaded_file, analysed>>
    /\ UNCHANGED <<coreVars, textVars>>

\* a file is put into the uploader of the upload screen
UploadFile ==
    /\ ~rerun
    /\ uploaded_data = None
    /\ \E file \in Uploads :
         /\ uploaded_file' = file
         /\ shown' = UploadScreen(file).page
    /\ UNCHANGED <<uploaded_data, analysis_results, rerun, analysed>>
    /\ UNCHANGED <<coreVars, textVars>>

\* "Analyze Comments" is pressed under the preview
AnalyzeComments ==
    /\ ~rerun
    /\ uploaded_data = None
    /\ uploaded_file # None
    /\ shown.screen = "preview"
    /\ UploadScreen(uploaded_file).page.screen = "preview"
    /\ uploaded_data' = UploadScreen(uploaded_file).df
    /\ rerun' = TRUE
    /\ UNCHANGED <<analysis_results, uploaded_file, shown, analysed>>
    /\ UNCHANGED <<coreVars, textVars>>

\* A mutant of UploadNewFile: the cached results are not deleted.
UploadNewFile_keeps_results ==
    /\ ~rerun
    /\ uploaded_data # None
    /\ uploaded_data' = None
    /\ rerun' = TRUE
    /\ UNCHANGED <<analysis_results, uploaded_file, shown, analysed>>
    /\ UNCHANGED <<coreVars, textVars>>

\* "Upload New File" is pressed on the analysis screen
UploadNewFile ==
    /\ ~rerun
    /\ uploaded_data # None
    /\ uploaded_data' = None
    /\ analysis_results' = None
    /\ rerun' = TRUE
    /\ UNCHANGED <<uploaded_file, shown, analysed>>
    /\ UNCHANGED <<coreVars, textVars>>

\* a script run in which no button is pressed: the rerun st.rerun() asked
\* for, or any other interaction with the page
RunScript ==
    /\ rerun' = FALSE
    /\ IF uploaded_data = None
       THEN /\ shown' = IF uploaded_file = None THEN UploadPage
                        ELSE UploadScreen(uploaded_file).page
            /\ UNCHANGED <<analysis_results, uploaded_file, analysed>>
       ELSE \* the uploader is not drawn on this screen and loses its file
            /\ uploaded_file' = None
            /\ IF analysis_results = None
               THEN LET results == PerformAnalysis(uploaded_data) IN
                    /\ analysed' = uploaded_data
                    /\ IF results.err = "none"
                       THEN /\ analysis_results' = results.val
                            /\ shown' = Page("results", "", <<>>, results.val)
                       ELSE /\ analysis_results' = analysis_results
                            /\ shown' = Page("exception", results.err, <<>>,
                                             None)
               ELSE /\ shown' = Page("results", "", <<>>, analysis_results)
                    /\ UNCHANGED <<analysis_results, analysed>>
    /\ UNCHANGED uploaded_data
    /\ UNCHANGED <<coreVars, textVars>>

NextApp ==
    \/ LoadSampleData
    \/ UploadFile
    \/ AnalyzeComments
    \/ UploadNewFile
    \/ RunScript

SpecApp == InitApp /\ [][NextApp]_vars

----------------------------------------------------------------------------
(* create_stakeholder_summary: one pass of its loop over the rows *)

InitGroups ==
    /\ NoAnalysis
    /\ NoSession
    /\ call \in {[fn |-> "create_stakeholder_summary", stakeholder_name |-> n] :
                    n \in Names}
    /\ result = None

\* the row is appended to the list of its group
AppendToGroup ==
    /\ call # None
    /\ call.fn = "create_stakeholder_summary"
    /\ result = None
    /\ result' = Return(StakeholderGroup(call.stakeholder_name))
    /\ UNCHANGED <<coreVars, appVars, call>>

NextGroups == AppendToGroup

SpecGroups == InitGroups /\ [][NextGroups]_vars

----------------------------------------------------------------------------
(* The text functions, one call each *)

\* the words a function keeps of a text, before it counts them
TokenizeCall(fn, t) == [fn |-> fn, text |-> t, round |-> 1, first |-> None]

TokenizeCalls ==
    {TokenizeCall(fn, t) :
        fn \in {"extract_keywords:keywords", "_get_word_frequency:words",
                "get_word_frequency:words"},
        t \in PlainTexts}

InitText ==
    /\ NoAnalysis
    /\ NoSession
    /\ call \in TokenizeCalls \cup ExtractKeywordsCalls \cup WordFrequencyCalls
    /\ result = None

\* extract_keywords up to keywords = [...]
TokenizeKeywords ==
    /\ call # None
    /\ call.fn = "extract_keywords:keywords"
    /\ result = None
    /\ result' = Return(AnalyzerTokens(call.text))
    /\ UNCHANGED <<coreVars, appVars, call>>

\* _get_word_frequency up to words = [...]
TokenizeSummarizer ==
    /\ call # None
    /\ call.fn = "_get_word_frequency:words"
    /\ result = None
    /\ result' = Return(SummarizerTokens(call.text))
    /\ UNCHANGED <<coreVars, appVars, call>>

\* get_word_frequency up to words = [...]
TokenizeWordCloud ==
    /\ call # None
    /\ call.fn = "get_word_frequency:words"
    /\ result = None
    /\ result' = Return(WordCloudTokens(call.text))
    /\ UNCHANGED <<coreVars, appVars, call>>

\* the words kept are joined with blanks and handed to the same function
TokenizeAgain ==
    /\ call # None
    /\ call.fn \in {"extract_keywords:keywords", "_get_word_frequency:words",
                     "get_word_frequency:words"}
    /\ call.round = 1
    /\ result # None
    /\ call' = [call EXCEPT !.text = Join(<<" ">>, result.val),
                            !.round = 2,
                            !.first = result.val]
    /\ result' = None
    /\ UNCHANGED <<coreVars, appVars>>

CallExtractKeywords ==
    /\ call # None
    /\ call.fn = "extract_keywords"
    /\ result = None
    /\ result' = Return(ExtractKeywords(call.text, call.num_keywords))
    /\ UNCHANGED <<coreVars, appVars, call>>

CallGetWordFrequency ==
    /\ call # None
    /\ call.fn = "_get_word_frequency"
    /\ result = None
    /\ result' = Return(WordFrequency(call.text))
    /\ UNCHANGED <<coreVars, appVars, call>>

NextText ==
    \/ CallExtractKeywords
    \/ CallGetWordFrequency
    \/ TokenizeKeywords
    \/ TokenizeSummarizer
    \/ TokenizeWordCloud
    \/ TokenizeAgain

SpecText == InitText /\ [][NextText]_vars

----------------------------------------------------------------------------
(* One call of summarize_single_comment *)

InitSummarize ==
    /\ NoAnalysis
    /\ NoSession
    /\ call \in SummarizeCalls
    /\ result = None

CallSummarizeSingleComment ==
    /\ call # None
    /\ call.fn = "summarize_single_comment"
    /\ result = None
    /\ result' = Return(SummarizeSingleComment(call.text, call.max_length))
    /\ UNCHANGED <<coreVars, appVars, call>>

NextSummarize == CallSummarizeSingleComment

SpecSummarize == InitSummarize /\ [][NextSummarize]_vars

----------------------------------------------------------------------------
(* One call of generate_overall_summary *)

InitNarrative ==
    /\ NoAnalysis
    /\ NoSession
    /\ call \in NarrativeCalls
    /\ result = None

CallGenerateOverallSummary ==
    /\ call # None
    /\ call.fn = "generate_overall_summary"
    /\ result = None
    /\ \E summary \in GenerateOverallSummary(call.comments_df,
                                               call.sentiments_df) :
           result' = Return(summary)
    /\ UNCHANGED <<coreVars, appVars, call>>

NextNarrative == CallGenerateOverallSummary

SpecNarrative == InitNarrative /\ [][NextNarrative]_vars

----------------------------------------------------------------------------
(* Properties of analyze_sentiment *)

\* C1: for every polarity p, analyze_sentiment labels the text Positive if
\* and only if p > 0.1, Negative if and only if p < -0.1 and Neutral
\* otherwise; p = 0.1 and p = -0.1 are both labelled Neutral.
C1_ThresholdLabel ==
    (analysis # None /\ analysis.err = "none") =>
        LET p     == text.polarity
            label == analysis.val.sentiment
        IN  /\ analysis.val.polarity = p
            /\ label \in {"Positive", "Negative", "Neutral"}
            /\ (label = "Positive") <=> (p > 1000)
            /\ (label = "Negative") <=> (p < -1000)
            /\ (label = "Neutral")  <=> (p >= -1000 /\ p =< 1000)

\* a text of polarity exactly 0.1 has been analysed and labelled Neutral
C1_Witness ==
    /\ analysis # None
    /\ analysis.err = "none"
    /\ analysis.val.polarity = 1000
    /\ analysis.val.sentiment = "Neutral"

----------------------------------------------------------------------------
(* Properties of analyze_comments_batch *)

\* the polarity TextBlob gives the text of the i-th input record
RawPolarity(i) == df.rows[i].comment_text.polarity

\* the fixed thresholds applied to a value in ten-thousandths
Thresholded(x) ==
    IF x > 1000 THEN "Positive" ELSE IF x < -1000 THEN "Negative" ELSE "Neutral"

\* C2 as stated: in every row of the per-record table, the label is the
\* threshold function of the polarity_score of that row (the polarity after
\* rounding to 3 decimals).
C2_LabelOfRoundedScore ==
    detailed # None =>
        \A i \in DOMAIN detailed.rows :
            detailed.rows[i].sentiment =
                Thresholded(detailed.rows[i].polarity_score)

\* C2 amended: in every row, the label is the threshold function of the
\* polarity before rounding, and polarity_score is that polarity rounded to
\* 3 decimals; so the label is the threshold function of polarity_score
\* unless polarity_score is exactly 0.1 (the label is then Positive or
\* Neutral) or exactly -0.1 (Negative or Neutral).
C2_LabelOfUnroundedPolarity ==
    detailed # None =>
        \A i \in DOMAIN detailed.rows :
            LET row == detailed.rows[i] IN
            /\ row.sentiment = Thresholded(RawPolarity(i))
            /\ 2 * Abs(row.polarity_score - RawPolarity(i)) =< 10
            /\ row.polarity_score % 10 = 0
            /\ Abs(row.polarity_score) # 1000 =>
                   row.sentiment = Thresholded(row.polarity_score)
            /\ row.polarity_score = 1000 =>
                   row.sentiment \in {"Positive", "Neutral"}
            /\ row.polarity_score = -1000 =>
                   row.sentiment \in {"Negative", "Neutral"}

\* a row reports polarity_score 0.1 and is labelled Positive, another
\* reports 0.1 and is labelled Neutral
C2_Witness ==
    /\ detailed # None
    /\ \E i, j \in DOMAIN detailed.rows :
           /\ detailed.rows[i].polarity_score = 1000
           /\ detailed.rows[i].sentiment = "Positive"
           /\ detailed.rows[j].polarity_score = 1000
           /\ detailed.rows[j].sentiment = "Neutral"

\* C3: for every input batch of n records, analyze_comments_batch returns
\* exactly n results, the i-th carrying the identifier, submitter, text and
\* category of the i-th input record.
C3_OneResultPerRecord ==
    pc # "analyze_comments_batch" =>
        /\ detailed # None
        /\ Len(detailed.rows) = Len(df.rows)
        /\ \A i \in DOMAIN df.rows :
               /\ detailed.rows[i].comment_id = df.rows[i].comment_id
               /\ detailed.rows[i].stakeholder_name =
                      df.rows[i].stakeholder_name
               /\ detailed.rows[i].comment_text = df.rows[i].comment_text
               /\ detailed.rows[i].provision_reference =
                      df.rows[i].provision_reference

\* C8: if scoring fails on one record of a batch, the batch is not aborted:
\* that record gets polarity 0, subjectivity 0 and label Neutral, and every
\* other record still gets its own result.
C8_FailedRecordSubstituted ==
    pc # "analyze_comments_batch" =>
        /\ detailed # None
        /\ Len(detailed.rows) = Len(df.rows)
        /\ \A i \in DOMAIN df.rows :
               LET t == df.rows[i].comment_text IN
               IF t.kind # "str"
               THEN /\ detailed.rows[i].polarity_score = 0
                    /\ detailed.rows[i].subjectivity_score = 0
                    /\ detailed.rows[i].sentiment = "Neutral"
               ELSE /\ detailed.rows[i].sentiment = Thresholded(t.polarity)
                    /\ 2 * Abs(detailed.rows[i].polarity_score - t.polarity)
                           =< 10

----------------------------------------------------------------------------
(* Properties of get_overall_sentiment *)

RECURSIVE SumValues(_)
SumValues(f) ==
    IF DOMAIN f = {} THEN 0
    ELSE LET k == CHOOSE x \in DOMAIN f : TRUE
         IN  f[k] + SumValues([x \in DOMAIN f \ {k} |-> f[x]])

\* C4: for every non-empty batch, the counts of Positive, Negative and
\* Neutral in sentiment_distribution add up to total_comments, which is the
\* number of records in the batch.
C4_CountsAddUp ==
    overall_stats # None =>
        /\ DOMAIN overall_stats.sentiment_distribution \subseteq
               {"Positive", "Negative", "Neutral"}
        /\ SumValues(overall_stats.sentiment_distribution) =
               overall_stats.total_comments
        /\ overall_stats.total_comments = Len(df.rows)
        /\ \A l \in DOMAIN overall_stats.sentiment_distribution :
               overall_stats.sentiment_distribution[l] =
                   Cardinality({i \in DOMAIN detailed.rows :
                                   detailed.rows[i].sentiment = l})

\* statistics of a batch in which all three labels occur
C4_Witness ==
    /\ overall_stats # None
    /\ DOMAIN overall_stats.sentiment_distribution =
           {"Positive", "Negative", "Neutral"}
    /\ overall_stats.total_comments = 3

\* C5: for every non-empty batch, positive_percentage + negative_percentage
\* + neutral_percentage differs from 100 by at most 0.15 (tenths of a
\* percent: from 1000 by at most 1.5).
C5_PercentagesAddUp ==
    overall_stats # None =>
        2 * Abs(overall_stats.positive_percentage
                + overall_stats.negative_percentage
                + overall_stats.neutral_percentage - 1000) =< 3

\* statistics whose three percentages are 33.3 each and add up to 99.9
C5_Witness ==
    /\ overall_stats # None
    /\ overall_stats.positive_percentage = 333
    /\ overall_stats.negative_percentage = 333
    /\ overall_stats.neutral_percentage = 333

\* C6: when the batch is empty the analysis fails with an EmptyInputError,
\* not with a numeric or other fault, and returns no partial result.
C6_EmptyInputError ==
    (df.rows = <<>> /\ pc \in {"raised", "returned"}) =>
        /\ pc = "raised"
        /\ error = "EmptyInputError"
        /\ returned = None

\* the sum of the per-record polarities, each rounded to 3 decimals, of the
\* input records whose index is in I
RECURSIVE SumRounded(_)
SumRounded(I) ==
    IF I = {} THEN 0
    ELSE LET i == CHOOSE x \in I : TRUE
         IN  10 * RoundHalfEven(RawPolarity(i), 10) + SumRounded(I \ {i})

RECURSIVE SumRaw(_)
SumRaw(I) ==
    IF I = {} THEN 0
    ELSE LET i == CHOOSE x \in I : TRUE
         IN  RawPolarity(i) + SumRaw(I \ {i})

InProvision(provision) ==
    {i \in DOMAIN df.rows : df.rows[i].provision_reference = provision}

\* C7: average_polarity is the arithmetic mean (reported to 3 decimals) of
\* the per-record polarities after each has been rounded to 3 decimals, not
\* the mean of the raw scores; the same holds for each avg_polarity per
\* category.
C7_MeanOfRounded ==
    /\ overall_stats # None =>
           overall_stats.average_polarity =
               10 * RoundHalfEven(SumRounded(DOMAIN df.rows),
                                  10 * Len(df.rows))
    /\ provision_sentiment # None =>
           \A provision \in DOMAIN provision_sentiment :
               provision_sentiment[provision].avg_polarity =
                   10 * RoundHalfEven(
                            SumRounded(InProvision(provision)),
                            10 * Cardinality(InProvision(provision)))

\* the overall mean and a category's mean both differ from what the raw
\* scores would give
C7_Witness ==
    /\ overall_stats # None
    /\ provision_sentiment # None
    /\ overall_stats.average_polarity #
           10 * RoundHalfEven(SumRaw(DOMAIN df.rows), 10 * Len(df.rows))
    /\ \E provision \in DOMAIN provision_sentiment :
           provision_sentiment[provision].avg_polarity #
               10 * RoundHalfEven(SumRaw(InProvision(provision)),
                                  10 * Cardinality(InProvision(provision)))

----------------------------------------------------------------------------
(* Properties of the session *)

\* C9: when a required column is absent from the input, the run fails before
\* any analysis begins and reports all missing columns at once; on every
\* path by which data becomes the session's data (file upload and Load
\* Sample Data), perform_analysis is never started on input lacking a
\* required column.
C9_MissingColumnsFailFast ==
    /\ analysed # None => RequiredColumns \subseteq analysed.columns
    /\ (uploaded_file # None /\ uploaded_file.readable
            /\ ~(RequiredColumns \subseteq uploaded_file.frame.columns)) =>
           /\ shown.screen = "error"
           /\ shown.message = "Missing required columns"
           /\ Range(shown.missing) =
                  RequiredColumns \ uploaded_file.frame.columns

\* C10: every dataset on which perform_analysis is run, whichever way it was
\* loaded (file upload or Load Sample Data), contains no row with a null
\* comment_text.
C10_NoNullTextAnalysed ==
    analysed # None =>
        \A i \in DOMAIN analysed.rows :
            analysed.rows[i].comment_text.kind # "nan"

\* C19: after any sequence of UI actions, the analysis results held in the
\* session and displayed were computed from the dataset currently held as
\* the session's uploaded data; pressing Load Sample Data while results of
\* an earlier dataset are cached never leaves those earlier results
\* displayed for the new data.
C19_ResultsOfCurrentData ==
    (~rerun /\ shown.screen = "results") =>
        /\ uploaded_data # None
        /\ shown.results = analysis_results
        /\ PerformAnalysis(uploaded_data) = Return(analysis_results)

\* the upload section of main is on the page
OnUploadScreen == shown.screen \in {"upload", "preview", "error"}

\* C20: in every reachable session state, cached analysis results exist
\* only if uploaded data exists; results are created only while uploaded
\* data is present, and Upload New File removes the uploaded data and the
\* cached results together, the run that follows drawing the upload screen.
C20_ResultsOnlyWithData ==
    /\ [](analysis_results # None => uploaded_data # None)
    /\ [][(rerun /\ uploaded_data = None /\ ~rerun') =>
              (OnUploadScreen' /\ uploaded_data' = None
                  /\ analysis_results' = None)]_vars
    /\ [][(analysis_results = None /\ analysis_results' # None) =>
              (uploaded_data # None /\ uploaded_data' = uploaded_data)]_vars
    /\ [][(uploaded_data # None /\ uploaded_data' = None) =>
              (analysis_results' = None /\ rerun')]_vars

\* results were cached for a dataset, Upload New File was pressed, and the
\* session is back on the upload screen with neither data nor results
C20_Witness ==
    /\ analysed # None
    /\ PerformAnalysis(analysed).err = "none"
    /\ uploaded_data = None
    /\ analysis_results = None
    /\ ~rerun
    /\ shown = UploadPage

----------------------------------------------------------------------------
(* Properties of the per-group rollups *)

\* the three rollups of a batch, each group as its total count and its
\* per-label counts
ProvisionRollup ==
    [g \in DOMAIN provision_sentiment |->
        [total  |-> provision_sentiment[g].count,
         labels |-> provision_sentiment[g].sentiments]]

StakeholderRollup ==
    [g \in DOMAIN returned.by_stakeholder |->
        [total  |-> returned.by_stakeholder[g].total,
         labels |->
             [l \in {"positive", "negative", "neutral"} |->
                 returned.by_stakeholder[g][l]]]]

GroupRollup ==
    [g \in DOMAIN group_summary |->
        [total  |-> group_summary[g].count,
         labels |-> group_summary[g].sentiment_distribution]]

RollupAddsUp(rollup) ==
    /\ \A g \in DOMAIN rollup : SumValues(rollup[g].labels) = rollup[g].total
    /\ SumValues([g \in DOMAIN rollup |-> rollup[g].total]) = Len(df.rows)

\* C15: in the rollup by provision, the rollup by stakeholder and the rollup
\* by stakeholder group, the per-label counts of a group add up to the
\* group's count, and the groups' counts add up to the number of records in
\* the batch.
C15_RollupsAddUp ==
    /\ provision_sentiment # None => RollupAddsUp(ProvisionRollup)
    /\ returned # None => RollupAddsUp(StakeholderRollup)
    /\ group_summary # None => RollupAddsUp(GroupRollup)

\* a batch with a record repeated, of two stakeholder groups, one of them
\* with two labels
C15_Witness ==
    /\ pc = "summarized"
    /\ Cardinality(Range(df.rows)) < Len(df.rows)
    /\ Cardinality(DOMAIN group_summary) = 2
    /\ Cardinality(DOMAIN provision_sentiment) >= 2
    /\ \E g \in DOMAIN group_summary :
           Cardinality(DOMAIN group_summary[g].sentiment_distribution) = 2

----------------------------------------------------------------------------
(* Properties of the stakeholder groups *)

\* the groups in their order of priority, each with its keywords
GroupPriority ==
    <<[group |-> "Legal",       keywords |-> LegalKeywords],
      [group |-> "Business",    keywords |-> BusinessKeywords],
      [group |-> "Government",  keywords |-> GovernmentKeywords],
      [group |-> "Association", keywords |-> AssociationKeywords]>>

\* the groups a keyword of which occurs in the lowercased name
GroupsNamed(stakeholder_name) ==
    {i \in DOMAIN GroupPriority :
        \E k \in GroupPriority[i].keywords :
            Contains(LowerCase(stakeholder_name), k)}

\* C14: a record goes to exactly one of Legal, Business, Government,
\* Association and Individual: to the first group, in that order, a keyword
\* of which the lowercased stakeholder name contains, and to Individual when
\* it contains none; "Acme Legal Partners" goes to Legal.
C14_GroupByPriority ==
    (call # None /\ call.fn = "create_stakeholder_summary" /\ result # None) =>
        LET named == GroupsNamed(call.stakeholder_name) IN
        /\ result.val \in {"Legal", "Business", "Government", "Association",
                        "Individual"}
        /\ named = {} => result.val = "Individual"
        /\ named # {} =>
               result.val = GroupPriority[CHOOSE i \in named :
                                         \A j \in named : i <= j].group
        /\ call.stakeholder_name = AcmeLegalPartners => result.val = "Legal"

\* a name with a keyword of Business before a keyword of Legal, put with
\* Legal
C14_Witness ==
    /\ call # None
    /\ call.fn = "create_stakeholder_summary"
    /\ {1, 2} \subseteq GroupsNamed(call.stakeholder_name)
    /\ Len(call.stakeholder_name) >= 8
    /\ SubSeq(LowerCase(call.stakeholder_name), 1, 8) =
           <<"b", "u", "s", "i", "n", "e", "s", "s">>
    /\ result = Return("Legal")

----------------------------------------------------------------------------
(* Properties of the tokenizers *)

IsTokenizeCall ==
    /\ call # None
    /\ call.fn \in {"extract_keywords:keywords", "_get_word_frequency:words",
                     "get_word_frequency:words"}

\* C16: in extract_keywords, _get_word_frequency and get_word_frequency, the
\* words kept of the blank-joined words kept of a text are the words kept of
\* the text, and no word is kept of the empty string.
C16_TokenizeIdempotent ==
    (IsTokenizeCall /\ result # None) =>
        /\ result.err = "none"
        /\ call.round = 2 => result.val = call.first
        /\ call.text = <<>> => result.val = <<>>

\* the second pass, over the two words kept of a text
C16_Witness ==
    /\ IsTokenizeCall
    /\ call.fn = "extract_keywords:keywords"
    /\ call.round = 2
    /\ call.first = <<<<"c", "o", "s", "t">>, <<"c", "o", "s", "t">>>>
    /\ call.text = <<"c", "o", "s", "t", " ", "c", "o", "s", "t">>
    /\ result = Return(call.first)

----------------------------------------------------------------------------
(* Properties of extract_keywords *)

ExtractKeywordsReturned ==
    /\ call # None
    /\ call.fn = "extract_keywords"
    /\ result # None

\* C11: extract_keywords(text, n) returns at most n (word, count) pairs, the
\* counts never increasing along the list, no word a stop word or of three
\* letters or fewer; of a text that is empty or all whitespace it returns
\* the empty list.
C11_TopKeywords ==
    ExtractKeywordsReturned =>
        /\ result.err = "none"
        /\ Len(result.val) <= call.num_keywords
        /\ \A i \in DOMAIN result.val :
               /\ result.val[i][1] \notin AnalyzerStopWords
               /\ Len(result.val[i][1]) > 3
               /\ i > 1 => result.val[i - 1][2] >= result.val[i][2]
        /\ Range(call.text) \subseteq Whitespace => result.val = <<>>

\* one keyword asked for of a text with two: the second, which occurs
\* twice, is returned
C11_Witness ==
    /\ ExtractKeywordsReturned
    /\ call.num_keywords = 1
    /\ Keys(AnalyzerTokens(call.text)) =
           <<<<"c", "o", "s", "t">>, <<"p", "l", "a", "n">>>>
    /\ result = Return(<<<<<<"p", "l", "a", "n">>, 2>>>>)

----------------------------------------------------------------------------
(* Properties of _get_word_frequency *)

WordFrequencyReturned ==
    /\ call # None
    /\ call.fn = "_get_word_frequency"
    /\ result # None

\* the words of the text that qualify: what whitespace separates once the
\* text is lowercased and rid of all but letters and whitespace, made of
\* lowercase letters, not a stop word, longer than two letters
Qualifying(t) ==
    SelectSeq(Split(ReSub(LowerCase(t))), LAMBDA w :
        /\ Range(w) \subseteq LowercaseLetters
        /\ w \notin SummarizerStopWords
        /\ Len(w) > 2)

\* C12: _get_word_frequency maps each qualifying word of the text, and
\* nothing else, to its count divided by the largest count of a qualifying
\* word: every weight is above 0 and at most 1, the weight of a most
\* frequent word is 1, and a text with no qualifying word gives the empty
\* mapping.
C12_NormalisedWeights ==
    WordFrequencyReturned =>
        LET words == Qualifying(call.text)
            Count(w) == Cardinality({i \in DOMAIN words : words[i] = w})
            items == result.val
        IN  /\ result.err = "none"
            /\ {items[i][1] : i \in DOMAIN items} = Range(words)
            /\ \A i, j \in DOMAIN items : items[i][1] = items[j][1] => i = j
            /\ \A i \in DOMAIN items :
                   /\ items[i][2].num = Count(items[i][1])
                   /\ \A w \in Range(words) : Count(w) <= items[i][2].den
                   /\ \E w \in Range(words) : Count(w) = items[i][2].den
                   /\ 0 < items[i][2].num
                   /\ items[i][2].num <= items[i][2].den
            /\ items # <<>> =>
                   \E i \in DOMAIN items : items[i][2].num = items[i][2].den
            /\ words = <<>> => items = <<>>

\* a word of weight 1/2 and a word of weight 1
C12_Witness ==
    /\ WordFrequencyReturned
    /\ Len(result.val) = 2
    /\ result.val[1][2] = Quotient(1, 2)
    /\ result.val[2][2] = Quotient(2, 2)

----------------------------------------------------------------------------
(* Properties of summarize_single_comment *)

SummarizeReturned ==
    /\ call # None
    /\ call.fn = "summarize_single_comment"
    /\ result # None

\* the number of whitespace-separated words of a text
WordCount(t) == Len(Split(t))

\* C13: summarize_single_comment returns the text itself if the text has at
\* most max_length words, and only then; otherwise what it returns has at
\* most max_length + 1 words.
C13_SummaryLength ==
    SummarizeReturned =>
        /\ result.err = "none"
        /\ WordCount(call.text) <= call.max_length <=> result.val = call.text
        /\ WordCount(call.text) > call.max_length =>
               WordCount(result.val) <= call.max_length + 1

\* the two best sentences of a comment have more than max_length words and
\* are cut down to max_length words, the last with the ellipsis
C13_Witness ==
    /\ SummarizeReturned
    /\ call.max_length = 2
    /\ Len(SplitOn(call.text, ".")) > 2
    /\ WordCount(call.text) = 4
    /\ WordCount(result.val) = 2
    /\ SubSeq(result.val, Len(result.val) - 2, Len(result.val)) = Ellipsis

\* the call scores sentences: the text has more than max_length words and
\* more than two pieces between full stops
ScoresSentences ==
    /\ SummarizeReturned
    /\ WordCount(call.text) > call.max_length
    /\ Len(SplitOn(call.text, ".")) > 2

\* the sum of the weights of the words of a sentence over their number, the
\* weights being counts over the one largest count
ScoreOf(sentence) ==
    LET word_freq == WordFrequency(call.text)
        ws == Split(LowerCase(sentence))
        Num(w) == WeightOf(word_freq, w).num
    IN  IF ws = <<>> THEN Quotient(0, 1)
        ELSE Quotient(SumSeq([i \in DOMAIN ws |-> Num(ws[i])]),
                      MaxFreq(Counter(SummarizerTokens(call.text))) * Len(ws))

\* the place of the best of the candidates outside `taken`: no other has a
\* higher score, and of those with its score it comes first
BestOf(candidates, taken) ==
    CHOOSE i \in DOMAIN candidates \ taken :
        \A j \in DOMAIN candidates \ taken :
            /\ ~Greater(ScoreOf(candidates[j]), ScoreOf(candidates[i]))
            /\ ~Greater(ScoreOf(candidates[i]), ScoreOf(candidates[j])) => i <= j

\* the two best candidates joined with ". ", and cut to max_length words
\* with the ellipsis if that is longer
SummaryOf(candidates) ==
    LET first == BestOf(candidates, {})
        top == IF Len(candidates) = 0 THEN <<>>
               ELSE IF Len(candidates) = 1 THEN <<candidates[1]>>
               ELSE <<candidates[first],
                      candidates[BestOf(candidates, {first})]>>
        summary == Join(<<".", " ">>, top)
    IN  IF WordCount(summary) > call.max_length
        THEN Join(<<" ">>, SubSeq(Split(summary), 1, call.max_length))
                 \o Ellipsis
        ELSE summary

\* C18 as stated: when it scores sentences, summarize_single_comment returns
\* the two sentences of highest score among the non-empty sentences of the
\* text, equal scores in the order of the text, joined with ". ".
C18_TopTwoSentences ==
    ScoresSentences =>
        result.val = SummaryOf(StrippedSentences(SplitOn(call.text, ".")))

\* C18, amended: the two are taken among the distinct non-empty sentences,
\* a sentence that occurs several times standing once, at its first place.
C18_TopTwoDistinctSentences ==
    ScoresSentences =>
        result.val =
            SummaryOf(Keys(StrippedSentences(SplitOn(call.text, "."))))

\* a comment whose best sentence occurs twice: the summary is that sentence
\* and the next best one
C18_Witness ==
    /\ ScoresSentences
    /\ call.max_length = 3
    /\ StrippedSentences(SplitOn(call.text, ".")) =
           <<<<"p", "l", "a", "n">>,
             <<"c", "o", "s", "t", " ", "t", "a", "x">>,
             <<"p", "l", "a", "n">>>>
    /\ result.val = <<"p", "l", "a", "n", ".", " ",
                      "c", "o", "s", "t", " ", "t", "a", "x">>

----------------------------------------------------------------------------
(* Properties of generate_overall_summary *)

NarrativeReturned ==
    /\ call # None
    /\ call.fn = "generate_overall_summary"
    /\ result # None

\* the word occurs in the text of a record with the label: it is one of the
\* words whitespace separates in the text, lowercased and rid of all but
\* letters and whitespace
OccursUnder(word, label) ==
    \E i \in DOMAIN call.sentiments_df.rows :
        /\ call.sentiments_df.rows[i].sentiment = label
        /\ word \in Range(Split(ReSub(LowerCase(
                     call.sentiments_df.rows[i].comment_text))))

SectionOf(section, label) ==
    section # None =>
        /\ \E i \in DOMAIN call.sentiments_df.rows :
               call.sentiments_df.rows[i].sentiment = label
        /\ \A i \in DOMAIN section.words :
               /\ section.words[i] \in MeaningfulWords
               /\ OccursUnder(section.words[i], label)

\* C17: every word under "Stakeholders appreciate" is in the list of
\* meaningful words and occurs in the text of a Positive record, every word
\* under "Main concerns" is in the list and occurs in the text of a Negative
\* record, and either section is there only if a record has its label.
C17_ListedWords ==
    NarrativeReturned =>
        /\ result.err = "none"
        /\ SectionOf(result.val.positive_feedback, "Positive")
        /\ SectionOf(result.val.concerns_raised, "Negative")

\* the Positive records say "plan" three times and "cost" once, and "cost"
\* alone is listed; no record is Negative and there is no section of
\* concerns
C17_Witness ==
    /\ NarrativeReturned
    /\ result.val.main_topics = <<<<"p", "l", "a", "n">>, <<"c", "o", "s", "t">>>>
    /\ result.val.positive_feedback = [words |-> <<<<"c", "o", "s", "t">>>>]
    /\ result.val.concerns_raised = None

----------------------------------------------------------------------------
(* Properties of overall_sentiment *)

\* the sum of the polarity_score column: the mean is this over the number of
\* rows
TotalPolarity == SumSeq(Column(detailed.rows, "polarity_score"))

\* the fixed thresholds applied to the quotient num / den, den positive
ThresholdedQuotient(num, den) ==
    IF num > 1000 * den THEN "Positive"
    ELSE IF num < -1000 * den THEN "Negative"
    ELSE "Neutral"

\* C21 as stated: overall_sentiment is the threshold function of the
\* average_polarity reported next to it: Positive iff average_polarity > 0.1,
\* Negative iff average_polarity < -0.1, Neutral otherwise.
C21_LabelOfReportedAverage ==
    overall_stats # None =>
        overall_stats.overall_sentiment =
            Thresholded(overall_stats.average_polarity)

\* C21 amended: overall_sentiment is the threshold function of the mean of
\* polarity_score before it is rounded, and average_polarity is that mean
\* rounded to 3 decimals; so the label is the threshold function of
\* average_polarity unless average_polarity is exactly 0.1 (the label is
\* then Positive or Neutral) or exactly -0.1 (Negative or Neutral).
C21_LabelOfUnroundedAverage ==
    overall_stats # None =>
        LET n == Len(detailed.rows)
            reported == overall_stats.average_polarity
            label == overall_stats.overall_sentiment
        IN  /\ label = ThresholdedQuotient(TotalPolarity, n)
            /\ 2 * Abs(reported * n - TotalPolarity) =< 10 * n
            /\ reported % 10 = 0
            /\ Abs(reported) # 1000 => label = Thresholded(reported)
            /\ reported = 1000 => label \in {"Positive", "Neutral"}
            /\ reported = -1000 => label \in {"Negative", "Neutral"}

\* a batch whose mean is above 0.1 and reported as 0.1: the label is
\* Positive
C21_Witness ==
    /\ overall_stats # None
    /\ TotalPolarity > 1000 * Len(detailed.rows)
    /\ overall_stats.average_polarity = 1000
    /\ overall_stats.overall_sentiment = "Positive"

====
